---- MODULE Spec2Model ----
(***************************************************************************)
(* A model of heic2jpg.py: the scanner (find_heic_files), the planner and  *)
(* reporter in main, the converter (convert_heic_to_jpg) and the thread     *)
(* pool that main dispatches the conversions on.                            *)
(*                                                                          *)
(* File names are sequences of one-character strings, so that lower(),      *)
(* endswith() and os.path.splitext() are computed the way the code computes *)
(* them.  A path is a record [dir, name]: dir is the sequence of directory  *)
(* components, name the file name.                                          *)
(***************************************************************************)
EXTENDS Integers, Sequences, FiniteSets, TLC

(***************************************************************************)
(* Bounds of the model.                                                     *)
(***************************************************************************)
\* Invocations of main in one behaviour (the pipeline run again on the tree
\* the previous run left).
MaxRuns == 2
\* Environment faults (a failing image.save, a failing os.remove) in one
\* behaviour.
MaxFaults == 1

(***************************************************************************)
(* Program constants.                                                       *)
(***************************************************************************)
MAX_THREADS == 4

(***************************************************************************)
(* Strings.                                                                 *)
(***************************************************************************)
\* str.lower() on one character (the characters the file names below use).
LowerChar(c) ==
    CASE c = "H" -> "h"
      [] c = "E" -> "e"
      [] c = "I" -> "i"
      [] c = "C" -> "c"
      [] c = "F" -> "f"
      [] OTHER -> c

\* str.lower()
Lower(s) == [i \in 1..Len(s) |-> LowerChar(s[i])]

\* str.endswith(suffix)
EndsWith(s, suf) ==
    /\ Len(suf) <= Len(s)
    /\ SubSeq(s, Len(s) - Len(suf) + 1, Len(s)) = suf

DotHeic == <<".", "h", "e", "i", "c">>
DotHeif == <<".", "h", "e", "i", "f">>
DotJpg  == <<".", "j", "p", "g">>

\* file.lower().endswith((".heic", ".heif"))
IsHeicName(name) ==
    \/ EndsWith(Lower(name), DotHeic)
    \/ EndsWith(Lower(name), DotHeif)

\* The index of the last "." of a file name, 0 when it has none.
LastDot(name) ==
    LET dots == {i \in 1..Len(name) : name[i] = "."}
    IN  IF dots = {} THEN 0 ELSE CHOOSE i \in dots : \A k \in dots : k <= i

\* os.path.splitext(name)[0]: the name up to its last dot; leading dots of the
\* name are no extension separator.
SplitextRoot(name) ==
    LET d == LastDot(name)
    IN  IF d = 0 \/ (\A i \in 1..d : name[i] = ".")
        THEN name
        ELSE SubSeq(name, 1, d - 1)

(***************************************************************************)
(* Paths and the file system.                                               *)
(***************************************************************************)
Path(d, n) == [dir |-> d, name |-> n]

NoPath == Path(<< >>, << >>)

\* What a file holds.  kind: "image" (a decodable HEIC/HEIF), "corrupt" (a
\* HEIC/HEIF that does not decode), "other" (not an image of ours), "old" (a
\* JPEG that was there before), "partial" (a JPEG being written by the job
\* converting `by`), "jpeg" (the finished conversion of `by`), "mixed" (the
\* bytes of two overlapping writers).
Content(k, src) == [kind |-> k, by |-> src]

\* os.path.exists
Exists(fs, p) == p \in DOMAIN fs

\* The file system with p holding c.
WriteFile(fs, p, c) == [q \in (DOMAIN fs) \cup {p} |-> IF q = p THEN c ELSE fs[q]]

\* The file system without p.
RemoveFile(fs, p) == [q \in (DOMAIN fs) \ {p} |-> fs[q]]

\* The directory d and every ancestor of it: what os.makedirs(d, exist_ok=True)
\* leaves existing.
Ancestors(d) == {SubSeq(d, 1, k) : k \in 1..Len(d)}

IsPrefix(d, e) == Len(d) <= Len(e) /\ SubSeq(e, 1, Len(d)) = d

(***************************************************************************)
(* The trees the model runs on.                                             *)
(***************************************************************************)
ScanRoot == <<"a">>
SubDir   == <<"a", "sub">>
OutRoot  == <<"out">>
OutSub   == <<"out", "sub">>

xheic == <<"x", ".", "h", "e", "i", "c">>
xHEIF == <<"x", ".", "H", "E", "I", "F">>
yHeic == <<"y", ".", "H", "e", "i", "c">>
wheif == <<"w", ".", "h", "e", "i", "f">>
zpng  == <<"z", ".", "p", "n", "g">>
xjpg  == <<"x", ".", "j", "p", "g">>
yjpg  == <<"y", ".", "j", "p", "g">>
wjpg  == <<"w", ".", "j", "p", "g">>

\* The order in which a directory lists its entries and os.walk visits the
\* subdirectories: implementation-defined in the code, fixed here.
NameOrder == <<xheic, xHEIF, yHeic, zpng, wheif, xjpg, yjpg, wjpg>>
DirOrder  == <<ScanRoot, SubDir, OutRoot, OutSub>>

\* The HEIC/HEIF files a tree may hold; x.heic and x.HEIF of the scan root share
\* the destination x.jpg.
SourceCandidates ==
    { Path(ScanRoot, xheic), Path(ScanRoot, xHEIF), Path(ScanRoot, yHeic),
      Path(SubDir, xheic), Path(SubDir, wheif) }

(***************************************************************************)
(* Scanner: find_heic_files.                                                *)
(***************************************************************************)
\* The names of directory d, in listing order.
ListDir(fs, d) == SelectSeq(NameOrder, LAMBDA n : Exists(fs, Path(d, n)))

\* The subdirectories of d, in listing order.
SubDirs(ds, d) ==
    SelectSeq(DirOrder, LAMBDA e : e \in ds /\ Len(e) = Len(d) + 1 /\ IsPrefix(d, e))

RECURSIVE WalkHeic(_, _, _)
RECURSIVE WalkHeicAll(_, _, _)
\* The loop of find_heic_files over os.walk(d), top-down: the matching files of
\* d, then those of each subdirectory.
WalkHeic(fs, ds, d) ==
    LET names == SelectSeq(ListDir(fs, d), IsHeicName)
        here  == [i \in 1..Len(names) |-> Path(d, names[i])]
    IN  here \o WalkHeicAll(fs, ds, SubDirs(ds, d))

WalkHeicAll(fs, ds, subs) ==
    IF subs = << >> THEN << >>
    ELSE WalkHeic(fs, ds, Head(subs)) \o WalkHeicAll(fs, ds, Tail(subs))

\* find_heic_files(directory): os.walk of a directory that does not exist (or
\* cannot be listed) yields nothing and raises nothing.
find_heic_files(fs, ds, directory) ==
    IF directory \in ds THEN WalkHeic(fs, ds, directory) ELSE << >>

(***************************************************************************)
(* Planner: the loop of main over heic_files.                               *)
(***************************************************************************)
\* os.path.relpath(p, directory) for a p under directory.
Relpath(p, directory) ==
    Path(SubSeq(p.dir, Len(directory) + 1, Len(p.dir)), p.name)

\* The destination of heic_file: under output_dir, mirroring the tree, when
\* output_dir is given, beside the source when it is not.
JpgFile(heic_file, directory, output_dir) ==
    IF output_dir # << >>
    THEN LET rel == Relpath(heic_file, directory)
         IN  Path(output_dir \o rel.dir, SplitextRoot(rel.name) \o DotJpg)
    ELSE Path(heic_file.dir, SplitextRoot(heic_file.name) \o DotJpg)

\* A planner that forgets the existence check.
PlannerNeverSkips(fs, jpg_file, ow) == FALSE

\* "if not overwrite and os.path.exists(jpg_file): continue"
PlannerSkips(fs, jpg_file, ow) == ~ow /\ Exists(fs, jpg_file)

RECURSIVE PlanLoop(_, _, _, _, _, _, _)
\* The loop from heic_files[i] on: [jobs, dirs], the work list and the
\* directories existing afterwards (os.makedirs of each destination's directory
\* when output_dir is given).
PlanLoop(fs, ds, heic, i, directory, output_dir, ow) ==
    IF i > Len(heic) THEN [jobs |-> << >>, dirs |-> ds]
    ELSE LET jpg  == JpgFile(heic[i], directory, output_dir)
             ds2  == IF output_dir # << >> THEN ds \cup Ancestors(jpg.dir) ELSE ds
             rest == PlanLoop(fs, ds2, heic, i + 1, directory, output_dir, ow)
         IN  IF PlannerSkips(fs, jpg, ow)
             THEN rest
             ELSE [jobs |-> <<[src |-> heic[i], dst |-> jpg]>> \o rest.jobs,
                   dirs |-> rest.dirs]

(***************************************************************************)
(* State.                                                                   *)
(***************************************************************************)
VARIABLES
    timeBound,        \* whether the global name `time` resolves in the module
    output_dir,       \* --output-dir: a directory, << >> for None
    overwrite,        \* --overwrite
    delete_original,  \* --delete-original
    files,            \* the file system: path -> content
    dirs,             \* the directories that exist
    run,              \* which invocation of main this is
    mainPc,           \* where main is
    heic_files,       \* main's heic_files
    jobs,             \* main's heic_files_to_convert: <<[src, dst], ...>>
    queue,            \* the executor's work queue: submitted, not yet taken
    pc,               \* job -> where its convert_heic_to_jpg call is
    status,           \* job -> Pending, Running, Succeeded, Failed
    result,           \* job -> what task_wrapper returned
    created,          \* job -> image.save created the destination file
    out,              \* what main printed in this run
    faults,           \* environment faults so far
    writes,           \* job -> times it opened its destination for writing
    attempts,         \* job -> times a worker started it
    lastDone,         \* destination -> the job on it that returned last
    prevFailed        \* failure_counter of the previous run

vars == <<timeBound, output_dir, overwrite, delete_original, files, dirs, run,
          mainPc, heic_files, jobs, queue, pc, status, result, created,
          out, faults, writes, attempts, lastDone, prevFailed>>

inputs == <<timeBound, output_dir, overwrite, delete_original>>
perJob == <<pc, status, result, created, writes, attempts, lastDone>>

\* The directory main is given.
directory == ScanRoot

\* A pool with one thread too many.
WorkersOffByOne == 1..(MAX_THREADS + 1)

\* ThreadPoolExecutor(max_workers=MAX_THREADS): its worker threads.
Workers == 1..MAX_THREADS

JobIds == 1..Len(jobs)

Terminal(j) == status[j] \in {"Succeeded", "Failed"}

Line(m, a, b) == [msg |-> m, a |-> a, b |-> b]

(***************************************************************************)
(* The initial states: a tree, the flags, main about to start.              *)
(***************************************************************************)
\* A tree whose scan root exists: the sources `present`, those of `bad` corrupt,
\* z.png, and when `old` an x.jpg from before, beside the sources and under the
\* output root.
Tree(present, bad, old) ==
    LET extra == {Path(ScanRoot, zpng)} \cup
                 (IF old THEN {Path(ScanRoot, xjpg), Path(OutRoot, xjpg)} ELSE {})
    IN  [fs |-> [p \in present \cup extra |->
                   IF p \in bad THEN Content("corrupt", NoPath)
                   ELSE IF p \in present THEN Content("image", NoPath)
                   ELSE IF p.name = zpng THEN Content("other", NoPath)
                   ELSE Content("old", NoPath)],
         ds |-> {ScanRoot, SubDir} \cup (IF old THEN {OutRoot} ELSE {})]

\* A scan root that does not exist.
NoTree == [fs |-> << >>, ds |-> {}]

\* The trees of Spec: no scan root, or any of three sources, two of them sharing
\* their destination, at most one corrupt.
SmallCandidates ==
    { Path(ScanRoot, xheic), Path(ScanRoot, xHEIF), Path(SubDir, xheic) }

Trees ==
    {NoTree} \cup
    { Tree(present, bad, old) :
        present \in SUBSET SmallCandidates,
        bad \in {b \in SUBSET SmallCandidates : Cardinality(b) <= 1},
        old \in BOOLEAN }

\* The trees of SpecPool: more sources than the pool has threads.
PoolTrees ==
    { Tree(SourceCandidates, bad, FALSE) : bad \in {{}, {Path(ScanRoot, yHeic)}} }

InitCommon ==
    /\ overwrite \in BOOLEAN
    /\ delete_original \in BOOLEAN
    /\ run = 1
    /\ mainPc = "start"
    /\ heic_files = << >>
    /\ jobs = << >>
    /\ queue = << >>
    /\ pc = << >>
    /\ status = << >>
    /\ result = << >>
    /\ created = << >>
    /\ out = << >>
    /\ faults = 0
    /\ writes = << >>
    /\ attempts = << >>
    /\ lastDone = << >>
    /\ prevFailed = 0

(***************************************************************************)
(* main.                                                                    *)
(***************************************************************************)
\* Lines 86-89: setup_logging, then start_time = time.time().  The module
\* imports no `time`: the name resolves only when something else bound it.
MainStart ==
    /\ mainPc = "start"
    /\ mainPc' = IF timeBound THEN "scan" ELSE "NameError"
    /\ UNCHANGED <<inputs, files, dirs, run, heic_files, jobs, queue, perJob, out, faults, prevFailed>>

\* A scan step that prints but does not return when nothing was found.
MainScanNoReturn ==
    /\ mainPc = "scan"
    /\ heic_files' = find_heic_files(files, dirs, directory)
    /\ out' = IF heic_files' = << >>
              THEN Append(out, Line("No HEIC files found.", 0, 0))
              ELSE out
    /\ mainPc' = "plan"
    /\ UNCHANGED <<inputs, files, dirs, run, jobs, queue, perJob,
                   faults, prevFailed>>

\* Lines 91-95: heic_files = find_heic_files(directory); nothing found prints
\* so and returns.
MainScan ==
    /\ mainPc = "scan"
    /\ heic_files' = find_heic_files(files, dirs, directory)
    /\ IF heic_files' = << >>
       THEN /\ out' = Append(out, Line("No HEIC files found.", 0, 0))
            /\ mainPc' = "exited"
       ELSE /\ out' = out
            /\ mainPc' = "plan"
    /\ UNCHANGED <<inputs, files, dirs, run, jobs, queue, perJob,
                   faults, prevFailed>>

\* Lines 97-116: the work list; nothing to convert prints so and returns.
MainPlan ==
    /\ mainPc = "plan"
    /\ LET plan == PlanLoop(files, dirs, heic_files, 1, directory, output_dir,
                            overwrite)
       IN  /\ jobs' = plan.jobs
           /\ dirs' = plan.dirs
           /\ IF plan.jobs = << >>
              THEN /\ out' = Append(out, Line("All HEIC files have already been converted to JPEG.", 0, 0))
                   /\ mainPc' = "exited"
              ELSE /\ out' = Append(out, Line("Total HEIC files to convert", Len(plan.jobs), 0))
                   /\ mainPc' = "dispatch"
    /\ UNCHANGED <<inputs, files, run, heic_files, queue, perJob,
                   faults, prevFailed>>

\* Lines 130-131: executor.map submits one task per job of the work list, in
\* order, before it hands back the first result.
MainDispatch ==
    /\ mainPc = "dispatch"
    /\ queue' = [i \in JobIds |-> i]
    /\ pc' = [j \in JobIds |-> "queued"]
    /\ status' = [j \in JobIds |-> "Pending"]
    /\ result' = [j \in JobIds |-> FALSE]
    /\ created' = [j \in JobIds |-> FALSE]
    /\ writes' = [j \in JobIds |-> 0]
    /\ attempts' = [j \in JobIds |-> 0]
    /\ lastDone' = << >>
    /\ mainPc' = "join"
    /\ UNCHANGED <<inputs, files, dirs, run, heic_files, jobs, out,
                   faults, prevFailed>>

\* A join that gives up waiting at the first failure.
JoinOrFirstFailure ==
    \/ \A j \in JobIds : Terminal(j)
    \/ \E j \in JobIds : status[j] = "Failed"
\* list(executor.map(...)) and the end of the with block: main goes on when
\* every future has its result and every worker is back.
JoinReady == \A j \in JobIds : Terminal(j)

MainJoin ==
    /\ mainPc = "join"
    /\ JoinReady
    /\ mainPc' = "report"
    /\ UNCHANGED <<inputs, files, dirs, run, heic_files, jobs, queue, perJob, out, faults, prevFailed>>

\* sum(results): True counts 1.
RECURSIVE SumResults(_, _)
SumResults(res, n) ==
    IF n = 0 THEN 0 ELSE SumResults(res, n - 1) + (IF res[n] THEN 1 ELSE 0)

\* Lines 133-145: the counts and the summary.
MainReport ==
    /\ mainPc = "report"
    /\ LET total_files     == Len(jobs)
           success_counter == SumResults(result, total_files)
           failure_counter == total_files - success_counter
           summary == Line("Conversion completed. Total files converted",
                           success_counter, total_files)
       IN  out' = IF failure_counter > 0
                  THEN out \o <<summary, Line("Failed conversions", failure_counter, 0)>>
                  ELSE Append(out, summary)
    /\ mainPc' = "exited"
    /\ UNCHANGED <<inputs, files, dirs, run, heic_files, jobs, queue, perJob, faults, prevFailed>>

(***************************************************************************)
(* The worker threads: task_wrapper and convert_heic_to_jpg.                *)
(***************************************************************************)
\* The jobs some worker thread is running.
Running == {j \in DOMAIN status : status[j] = "Running"}

\* A take that leaves the work item in the queue.
WorkerTakeKeepsItem ==
    /\ mainPc = "join"
    /\ Cardinality(Running) < Cardinality(Workers)
    /\ queue # << >>
    /\ LET j == Head(queue)
       IN  /\ status' = [status EXCEPT ![j] = "Running"]
           /\ pc' = [pc EXCEPT ![j] = "check"]
           /\ attempts' = [attempts EXCEPT ![j] = @ + 1]
    /\ queue' = queue
    /\ UNCHANGED <<inputs, files, dirs, run, mainPc, heic_files, jobs, result,
                   created, out, faults, writes, lastDone, prevFailed>>

\* A worker thread is idle (each thread runs one work item at a time, and the
\* threads keep nothing between items, so which thread it is does not matter)
\* and takes the next work item of the queue.
WorkerTake ==
    /\ mainPc = "join"
    /\ Cardinality(Running) < Cardinality(Workers)
    /\ queue # << >>
    /\ LET j == Head(queue)
       IN  /\ status' = [status EXCEPT ![j] = "Running"]
           /\ pc' = [pc EXCEPT ![j] = "check"]
           /\ attempts' = [attempts EXCEPT ![j] = @ + 1]
    /\ queue' = Tail(queue)
    /\ UNCHANGED <<inputs, files, dirs, run, mainPc, heic_files, jobs, result,
                   created, out, faults, writes, lastDone, prevFailed>>

\* task_wrapper returns r for job j, whose convert_heic_to_jpg call ended at `at`
\* ("skipped": line 29, "converted": line 51, "decode_error", "save_error",
\* "remove_error": line 55 after that step raised): the future has its result
\* and the thread that ran it is idle again.
Return(j, r, at) ==
    /\ result' = [result EXCEPT ![j] = r]
    /\ status' = [status EXCEPT ![j] = IF r THEN "Succeeded" ELSE "Failed"]
    /\ pc' = [pc EXCEPT ![j] = at]
    /\ lastDone' = [d \in (DOMAIN lastDone) \cup {jobs[j].dst} |->
                       IF d = jobs[j].dst THEN j ELSE lastDone[d]]

\* An existence check that forgets the overwrite flag.
ConverterSkipsIgnoresOverwrite(j) == Exists(files, jobs[j].dst)

\* Line 27: "if not overwrite and os.path.exists(jpg_path)".
ConverterSkips(j) == ~overwrite /\ Exists(files, jobs[j].dst)

\* A skip that treats the source as converted and deletes it.
ConvertCheckSkipDeletes(j) ==
    /\ status[j] = "Running"
    /\ pc[j] = "check"
    /\ IF ConverterSkips(j)
       THEN /\ Return(j, TRUE, "skipped")
            /\ files' = IF delete_original
                        THEN RemoveFile(files, jobs[j].src) ELSE files
       ELSE /\ pc' = [pc EXCEPT ![j] = "read"]
            /\ UNCHANGED <<status, result, lastDone, files>>
    /\ UNCHANGED <<inputs, dirs, run, mainPc, heic_files, jobs,
                   queue, created, out, faults, writes, attempts,
                   prevFailed>>

\* Lines 27-29: the existence check; an existing destination returns True.
ConvertCheck(j) ==
    /\ status[j] = "Running"
    /\ pc[j] = "check"
    /\ IF ConverterSkips(j)
       THEN Return(j, TRUE, "skipped")
       ELSE /\ pc' = [pc EXCEPT ![j] = "read"]
            /\ UNCHANGED <<status, result, lastDone>>
    /\ UNCHANGED <<inputs, files, dirs, run, mainPc, heic_files, jobs,
                   queue, created, out, faults, writes, attempts,
                   prevFailed>>

\* Lines 31-42: pyheif.read and the EXIF of the source; a source that does not
\* decode raises, and the handler of lines 53-55 returns False.
ConvertRead(j) ==
    /\ status[j] = "Running"
    /\ pc[j] = "read"
    /\ IF Exists(files, jobs[j].src) /\ files[jobs[j].src].kind = "image"
       THEN /\ pc' = [pc EXCEPT ![j] = "save"]
            /\ UNCHANGED <<status, result, lastDone>>
       ELSE Return(j, FALSE, "decode_error")
    /\ UNCHANGED <<inputs, files, dirs, run, mainPc, heic_files, jobs,
                   queue, created, out, faults, writes, attempts,
                   prevFailed>>

\* Line 44, first half: image.save opens (creates or truncates) the destination.
ConvertSaveOpen(j) ==
    /\ status[j] = "Running"
    /\ pc[j] = "save"
    /\ IF jobs[j].dst.dir \in dirs
       THEN /\ files' = WriteFile(files, jobs[j].dst,
                                  Content("partial", jobs[j].src))
            /\ created' = [created EXCEPT ![j] = ~Exists(files, jobs[j].dst)]
            /\ writes' = [writes EXCEPT ![j] = @ + 1]
            /\ pc' = [pc EXCEPT ![j] = "saving"]
            /\ UNCHANGED <<status, result, lastDone>>
       ELSE /\ Return(j, FALSE, "save_error")
            /\ UNCHANGED <<files, created, writes>>
    /\ UNCHANGED <<inputs, dirs, run, mainPc, heic_files, jobs, queue, out,
                   faults, attempts, prevFailed>>

\* Line 44 failing before the destination is opened (no permission, no space
\* for a new file): image.save raises with the destination as it was, and the
\* handler of lines 53-55 returns False.
ConvertSaveOpenFail(j) ==
    /\ status[j] = "Running"
    /\ pc[j] = "save"
    /\ faults < MaxFaults
    /\ faults' = faults + 1
    /\ Return(j, FALSE, "save_error")
    /\ UNCHANGED <<inputs, files, dirs, run, mainPc, heic_files, jobs, queue,
                   created, out, writes, attempts, prevFailed>>

\* The destination after job j's encoder wrote its last byte: its JPEG, or, when
\* another writer opened the file meanwhile, possibly a mix of both; a path
\* unlinked meanwhile stays unlinked.
AfterWrite(j) ==
    LET dst == jobs[j].dst
        src == jobs[j].src
    IN  IF ~Exists(files, dst) THEN {files}
        ELSE IF files[dst] = Content("partial", src)
        THEN {WriteFile(files, dst, Content("jpeg", src))}
        ELSE {WriteFile(files, dst, Content("jpeg", src)),
              WriteFile(files, dst, Content("mixed", NoPath))}

\* What follows a successful image.save (lines 45-51): os.remove of the source
\* when delete_original, else return True.
ConvertSaveOk(j) ==
    /\ status[j] = "Running"
    /\ pc[j] = "saving"
    /\ files' \in AfterWrite(j)
    /\ IF delete_original
       THEN /\ pc' = [pc EXCEPT ![j] = "remove"]
            /\ UNCHANGED <<status, result, lastDone>>
       ELSE Return(j, TRUE, "converted")
    /\ UNCHANGED <<inputs, dirs, run, mainPc, heic_files, jobs, queue,
                   created, out, faults, writes, attempts, prevFailed>>

\* A failing save after which the source is deleted all the same.
ConvertSaveFailDeletesSource(j) ==
    /\ status[j] = "Running"
    /\ pc[j] = "saving"
    /\ faults < MaxFaults
    /\ faults' = faults + 1
    /\ files' = RemoveFile(files, jobs[j].src)
    /\ Return(j, FALSE, "save_error")
    /\ UNCHANGED <<inputs, dirs, run, mainPc, heic_files, jobs, queue,
                   created, out, writes, attempts, prevFailed>>

\* Line 44 failing (the encoder or the disk): image.save raises, leaving the
\* partial file or, when it created the file, possibly removing it; the handler
\* of lines 53-55 returns False.  The source is not touched.
ConvertSaveFail(j) ==
    /\ status[j] = "Running"
    /\ pc[j] = "saving"
    /\ faults < MaxFaults
    /\ faults' = faults + 1
    /\ files' \in {files} \cup
                  (IF created[j] /\ Exists(files, jobs[j].dst)
                   THEN {RemoveFile(files, jobs[j].dst)} ELSE {})
    /\ Return(j, FALSE, "save_error")
    /\ UNCHANGED <<inputs, dirs, run, mainPc, heic_files, jobs, queue,
                   created, out, writes, attempts, prevFailed>>

\* Lines 47-51: os.remove(heic_path), then return True.
ConvertRemoveOk(j) ==
    /\ status[j] = "Running"
    /\ pc[j] = "remove"
    /\ Exists(files, jobs[j].src)
    /\ files' = RemoveFile(files, jobs[j].src)
    /\ Return(j, TRUE, "converted")
    /\ UNCHANGED <<inputs, dirs, run, mainPc, heic_files, jobs, queue,
                   created, out, faults, writes, attempts, prevFailed>>

\* Line 48 raising (no permission, a busy file): the handler returns False and
\* the source stays.
ConvertRemoveFail(j) ==
    /\ status[j] = "Running"
    /\ pc[j] = "remove"
    /\ faults < MaxFaults
    /\ faults' = faults + 1
    /\ Return(j, FALSE, "remove_error")
    /\ UNCHANGED <<inputs, files, dirs, run, mainPc, heic_files, jobs,
                   queue, created, out, writes, attempts, prevFailed>>

(***************************************************************************)
(* The program run again.                                                   *)
(***************************************************************************)
\* failure_counter of the run that ended.
FailedNow == Cardinality({j \in DOMAIN status : status[j] = "Failed"})

\* main is invoked again, with the same arguments, on the tree as it is now.
NextRun ==
    /\ mainPc \in {"exited", "NameError"}
    /\ run < MaxRuns
    /\ run' = run + 1
    /\ prevFailed' = FailedNow
    /\ mainPc' = "start"
    /\ heic_files' = << >>
    /\ jobs' = << >>
    /\ queue' = << >>
    /\ pc' = << >>
    /\ status' = << >>
    /\ result' = << >>
    /\ created' = << >>
    /\ out' = << >>
    /\ writes' = << >>
    /\ attempts' = << >>
    /\ lastDone' = << >>
    /\ UNCHANGED <<inputs, files, dirs, faults>>

(***************************************************************************)
(* Specifications.                                                          *)
(***************************************************************************)
\* The pipeline of main from line 91 on, reached when `time` resolves.
Init ==
    /\ InitCommon
    /\ timeBound = TRUE
    /\ output_dir \in {<< >>, OutRoot}
    /\ \E t \in Trees : files = t.fs /\ dirs = t.ds

Next ==
    \/ MainStart
    \/ MainScan
    \/ MainPlan
    \/ MainDispatch
    \/ MainJoin
    \/ MainReport
    \/ NextRun
    \/ WorkerTake
    \/ \E j \in DOMAIN status :
        \/ ConvertCheck(j)
        \/ ConvertRead(j)
        \/ ConvertSaveOpen(j)
        \/ ConvertSaveOpenFail(j)
        \/ ConvertSaveOk(j)
        \/ ConvertSaveFail(j)
        \/ ConvertRemoveOk(j)
        \/ ConvertRemoveFail(j)

Spec == Init /\ [][Next]_vars

\* The same pipeline on a work list longer than the pool.
InitPool ==
    /\ InitCommon
    /\ timeBound = TRUE
    /\ output_dir = << >>
    /\ \E t \in PoolTrees : files = t.fs /\ dirs = t.ds

SpecPool == InitPool /\ [][Next]_vars

\* The file as it is: no `import time`, so the global name does not resolve.
InitShipped ==
    /\ InitCommon
    /\ timeBound = FALSE
    /\ output_dir \in {<< >>, OutRoot}
    /\ \E t \in Trees : files = t.fs /\ dirs = t.ds

NextShipped == MainStart \/ NextRun

SpecShipped == InitShipped /\ [][NextShipped]_vars

(***************************************************************************)
(* Properties.                                                              *)
(***************************************************************************)
\* image.save of job j returned: its convert_heic_to_jpg call got past line 44.
Saved(j) == pc[j] \in {"remove", "converted", "remove_error"}

SourceExists(j) == Exists(files, jobs[j].src)

SummaryMsg == "Conversion completed. Total files converted"

Succeeded == {j \in DOMAIN status : status[j] = "Succeeded"}
Failed    == {j \in DOMAIN status : status[j] = "Failed"}

\* C1, as claimed: with delete_original, when a job has ended its source is
\* gone if and only if its JPEG write succeeded.
C1_Original ==
    \A j \in DOMAIN status :
        (delete_original /\ Terminal(j)) => (~SourceExists(j) <=> Saved(j))

\* C1, amended: with delete_original, the source of a job is removed only after
\* its JPEG write succeeded: it exists while the job checks, decodes and saves,
\* and after a skip, a decode error or a save error; it is gone when the job
\* ended at line 51; and when os.remove itself raised, the write succeeded, the
\* source is still there and the job returned False.
C1_SourceRemovedOnlyAfterWrite ==
    \A j \in DOMAIN status :
        delete_original =>
            /\ (~SourceExists(j) => Saved(j))
            /\ (pc[j] \in {"check", "read", "save", "saving", "remove", "skipped",
                           "decode_error", "save_error"} => SourceExists(j))
            /\ (pc[j] = "converted" => ~SourceExists(j))
            /\ (pc[j] = "remove_error" => SourceExists(j) /\ ~result[j])

C1_Witness ==
    /\ delete_original
    /\ \E j, k \in DOMAIN status :
        /\ pc[j] = "remove_error" /\ SourceExists(j)
        /\ Exists(files, jobs[j].dst)
        /\ pc[k] = "converted" /\ ~SourceExists(k)

\* C2: a call of convert_heic_to_jpg with overwrite false whose destination
\* exists when it is called is one step that changes no file and no directory,
\* opens nothing for writing, and returns True; a job that ended so never wrote.
C2_SkipWritesNothing ==
    /\ [](\A j \in DOMAIN status :
            pc[j] = "skipped" => writes[j] = 0 /\ result[j] /\ SourceExists(j))
    /\ [][\A j \in DOMAIN status :
            ( /\ status[j] = "Running" /\ pc[j] = "check"
              /\ ~overwrite /\ Exists(files, jobs[j].dst)
              /\ j \in DOMAIN pc' /\ pc'[j] # "check" )
            => /\ files' = files
               /\ dirs' = dirs
               /\ status'[j] = "Succeeded"
               /\ result'[j] = TRUE
               /\ writes'[j] = 0]_vars

C2_Witness ==
    /\ delete_original
    /\ \E j \in DOMAIN status :
        /\ pc[j] = "skipped"
        /\ SourceExists(j)
        /\ Exists(files, jobs[j].dst)
        /\ files[jobs[j].dst].kind = "jpeg"

NoWorkList == jobs = << >> /\ mainPc \notin {"dispatch", "join", "report"}

C4_ConcurrencyBound == Cardinality(Running) <= MAX_THREADS

C4_Witness ==
    /\ Len(jobs) > MAX_THREADS
    /\ Cardinality(Running) = MAX_THREADS
    /\ queue # << >>

\* C5: main is past the dispatch only when every job of the work list has run
\* to Succeeded or Failed, failures or not; and the step in which one job fails
\* changes no other job and takes nothing from the queue.
C5_BarrierAndIsolation ==
    /\ []((mainPc \in {"report", "exited"} /\ jobs # << >>) =>
            /\ DOMAIN status = JobIds
            /\ \A j \in JobIds : Terminal(j) /\ attempts[j] = 1)
    /\ [][\A k \in DOMAIN status :
            (k \in DOMAIN status' /\ status[k] = "Running" /\ status'[k] = "Failed")
            => /\ queue' = queue
               /\ \A j \in DOMAIN status \ {k} :
                    status'[j] = status[j] /\ pc'[j] = pc[j]]_vars

C5_Witness ==
    /\ mainPc = "report"
    /\ Len(jobs) > MAX_THREADS
    /\ Failed # {}
    /\ Succeeded # {}

\* C6: within a run a job only goes Pending -> Running -> Succeeded or Failed,
\* is started at most once, keeps its final state, and has been started exactly
\* once when main counts the results.
C6_ExactlyOnce ==
    [][ /\ (DOMAIN status' = DOMAIN status /\ run' = run) =>
            \A j \in DOMAIN status :
                \/ status'[j] = status[j]
                \/ status[j] = "Pending" /\ status'[j] = "Running"
                \/ status[j] = "Running" /\ status'[j] \in {"Succeeded", "Failed"}
        /\ \A j \in DOMAIN attempts' : attempts'[j] <= 1
        /\ mainPc' = "report" =>
            \A j \in 1..Len(jobs') : attempts'[j] = 1 /\ Terminal(j)' ]_vars

C6_Witness ==
    /\ mainPc = "exited"
    /\ Len(jobs) > MAX_THREADS
    /\ \A j \in JobIds : attempts[j] = 1
    /\ Failed # {}

ErrorOutcome == mainPc \in {"NameError", "DirectoryNotFound"}

\* C7, as claimed: with the scan root missing, main ends in an error.
C7_Original ==
    (directory \notin dirs /\ mainPc \notin {"start", "scan"}) => ErrorOutcome

\* C7, amended: with the scan root missing, find_heic_files raises nothing and
\* returns the empty list, and main, once it has scanned, has printed "No HEIC
\* files found." and returned normally, having planned and run no job.
C7_MissingRootIsAnEmptyScan ==
    /\ directory \notin dirs => find_heic_files(files, dirs, directory) = << >>
    /\ (directory \notin dirs /\ mainPc \notin {"start", "scan", "NameError"}) =>
        /\ mainPc = "exited"
        /\ heic_files = << >>
        /\ jobs = << >>
        /\ status = << >>
        /\ out = <<Line("No HEIC files found.", 0, 0)>>

C7_Witness == directory \notin dirs /\ mainPc = "exited" /\ out # << >>

SameDst(j, k) == j # k /\ jobs[j].dst = jobs[k].dst

\* The destination of job j did not exist before the run: the planner kept the
\* job with overwrite false, or some job on it created the file.
DstWasAbsent(j) ==
    \/ ~overwrite
    \/ \E k \in JobIds : jobs[k].dst = jobs[j].dst /\ created[k]

\* C8, as claimed: two jobs on one destination that was absent before the run
\* each write it, and it ends holding the JPEG of the one that returned last.
C8_Original ==
    (mainPc \in {"report", "exited"} /\ jobs # << >>) =>
        \A j, k \in JobIds :
            (SameDst(j, k) /\ DstWasAbsent(j)) =>
                /\ writes[j] = 1
                /\ writes[k] = 1
                /\ (lastDone[jobs[j].dst] = j =>
                        /\ Exists(files, jobs[j].dst)
                        /\ files[jobs[j].dst] = Content("jpeg", jobs[j].src))

\* The work list with one job for each scanned source whose destination is
\* absent or to be overwritten.
OneJobPerSource ==
    LET keep == SelectSeq(heic_files,
                    LAMBDA h : overwrite \/
                               ~Exists(files, JpgFile(h, directory, output_dir)))
    IN  [i \in 1..Len(keep) |->
            [src |-> keep[i], dst |-> JpgFile(keep[i], directory, output_dir)]]

\* C8, amended: the planner makes one job per source, sources sharing a
\* destination included.  With overwrite true no job skips: every job whose
\* source decodes and whose save does not fail opens the destination for
\* writing itself, exactly once; a save that ends with no other writer having
\* opened the file meanwhile leaves this job's JPEG there (the last completed
\* write wins).  A job skips only with overwrite false, and then writes
\* nothing and returns True.
C8_OneJobPerSourceLastWriteWins ==
    /\ [][(mainPc = "plan" /\ mainPc' # "plan") => jobs' = OneJobPerSource]_vars
    /\ [](\A j \in DOMAIN status :
            /\ (overwrite /\ Terminal(j) /\ pc[j] \notin {"decode_error", "save_error"})
                    => writes[j] = 1
            /\ pc[j] = "skipped" => (~overwrite /\ writes[j] = 0 /\ result[j]))
    /\ [][\A j \in DOMAIN status :
            ( /\ pc[j] = "saving"
              /\ j \in DOMAIN pc' /\ pc'[j] \in {"remove", "converted"}
              /\ Exists(files, jobs[j].dst)
              /\ files[jobs[j].dst] = Content("partial", jobs[j].src) )
            => /\ Exists(files', jobs[j].dst)
               /\ files'[jobs[j].dst] = Content("jpeg", jobs[j].src)]_vars

C8_Witness ==
    /\ mainPc = "exited"
    /\ overwrite
    /\ \E j, k \in JobIds :
        /\ SameDst(j, k)
        /\ created[j]
        /\ pc[j] = "converted" /\ pc[k] = "converted"
        /\ writes[j] = 1 /\ writes[k] = 1
        /\ lastDone[jobs[k].dst] = k
        /\ files[jobs[k].dst] = Content("jpeg", jobs[k].src)

\* What main would plan on the tree as it is now.
PlannedNow ==
    PlanLoop(files, dirs, find_heic_files(files, dirs, directory), 1, directory,
             output_dir, overwrite).jobs

\* The summary is there, with the counts of the run, and the failure line is
\* there exactly when a job failed.
SummaryPrinted ==
    /\ \E i \in DOMAIN out :
        /\ out[i].msg = SummaryMsg
        /\ out[i].a = Cardinality(Succeeded)
        /\ out[i].b = Len(jobs)
        /\ out[i].a + Cardinality(Failed) = out[i].b
    /\ (\E i \in DOMAIN out :
            out[i].msg = "Failed conversions" /\ out[i].a = Cardinality(Failed))
       <=> Failed # {}

\* C9: an invocation of main on an existing directory with work to do ends with
\* the summary printed.
C9_SummaryPrinted ==
    ( /\ directory \in dirs
      /\ \/ mainPc = "exited" /\ jobs # << >>
         \/ mainPc = "NameError" /\ PlannedNow # << >> )
    => SummaryPrinted

\* The jobs of this run that wrote their destination JPEG.
Wrote == {j \in DOMAIN status : pc[j] \in {"converted", "remove_error"}}

\* C10: the count of converted files that main prints is the number of jobs
\* that wrote their JPEG in this run, every job counted wrote it, and with
\* delete_original the source of every job counted is gone.  Stated for the
\* runs in which no save and no remove fails, the runs of the claim's race.
C10_CountIsWrites ==
    \A i \in DOMAIN out :
        (out[i].msg = SummaryMsg /\ faults = 0) =>
            /\ \A j \in Succeeded : j \in Wrote
            /\ out[i].a = Cardinality(Wrote)
            /\ delete_original => \A j \in Succeeded : ~SourceExists(j)

====
